---- MODULE Spec2Model ----
(***************************************************************************)
(* EZCollections Manager (Blender add-on, version 2.4): the scene state    *)
(* the add-on reads and writes through bpy, its nine operators, the        *)
(* selection timer and register()/unregister().                            *)
(*                                                                         *)
(* Names (of objects and of collections) are sequences of one-character    *)
(* strings, so that prefixing, stripping and numbering are computed.       *)
(* An object, and a collection of bpy.data.collections, is identified by   *)
(* its name, as bpy.data.objects.get / bpy.data.collections.get do.        *)
(* Host operators are modelled at the level of their documentation:        *)
(* select_all(DESELECT) empties the selection, select_set(True) adds to    *)
(* it, parent_set parents the selected objects to the active one and       *)
(* refuses a parent loop, parent_clear clears the parent of the selected   *)
(* objects, link of something already linked raises. An object is         *)
(* selected and parented whatever its hide_viewport flag.                  *)
(***************************************************************************)
EXTENDS Integers, Sequences, FiniteSets, TLC

\* ------------------------------------------------------------------ bounds
\* Create is not invoked once bpy.data.collections holds MaxCreated
\* collections, Merge not once it holds MaxCols (MaxColsTree in the
\* specification of the collection tree).
MaxCreated == 2
MaxCols == 3
MaxColsTree == 5

\* Most runs to their end, in one behaviour, of the operators other than
\* Create and Merge, and of ticks that write something when the timer runs
\* beside them (MaxToggles: of Toggle Solo in the specification of solo
\* mode, MaxUnmerges: of Unmerge in that of the collection tree,
\* MaxLinkEdits: of Add and Remove in that of the objects' links).
MaxEdits == 1
MaxToggles == 2
MaxUnmerges == 2
MaxLinkEdits == 2

\* Most objects the user selects at once (operators may select more).
MaxSel == 2

\* The user's objects start at the whole coordinates -MaxCoord .. MaxCoord
\* in the specification of the pivots' locations.
MaxCoord == 2

\* generate_unique_name is tried on the sets of names COL_A, COL_A_1, ...,
\* COL_A_<MaxNames>.
MaxNames == 10

\* ------------------------------------------------------------------ names
NoObj == <<>>
NoTag == <<>>
NoAlc == <<>>
Scene == <<"S", "c", "e", "n", "e">>

ObjA == <<"a">>
ObjB == <<"b">>
BaseObjects == {ObjA, ObjB}

\* What the user may type in the name dialog of Create and Merge.
Suffixes == { <<>>, <<" ">>, <<" ", "A">> }

IsSpace(ch) == ch = " "

RECURSIVE LStrip(_)
LStrip(s) == IF s # <<>> /\ IsSpace(Head(s)) THEN LStrip(Tail(s)) ELSE s

RECURSIVE RStrip(_)
RStrip(s) ==
  IF s # <<>> /\ IsSpace(s[Len(s)]) THEN RStrip(SubSeq(s, 1, Len(s) - 1)) ELSE s

\* str.strip()
Strip(s) == RStrip(LStrip(s))

DigitChar(d) ==
  CASE d = 0 -> "0" [] d = 1 -> "1" [] d = 2 -> "2" [] d = 3 -> "3" [] d = 4 -> "4"
    [] d = 5 -> "5" [] d = 6 -> "6" [] d = 7 -> "7" [] d = 8 -> "8" [] OTHER -> "9"

\* str(counter) inside an f-string
RECURSIVE ToStr(_)
ToStr(n) == IF n < 10 THEN <<DigitChar(n)>> ELSE ToStr(n \div 10) \o <<DigitChar(n % 10)>>

ColPrefix == <<"C", "O", "L", "_">>
PivotPrefix == <<"P", "i", "v", "o", "t", "_">>

StartsWith(s, p) == Len(s) >= Len(p) /\ SubSeq(s, 1, Len(p)) = p

RECURSIVE UniqueFrom(_, _, _)
UniqueFrom(base_name, existing_names, counter) ==
  LET name == base_name \o <<"_">> \o ToStr(counter)
  IN IF name \in existing_names
       THEN UniqueFrom(base_name, existing_names, counter + 1)
       ELSE name

\* a generate_unique_name that tries the first number only
first_numbered_name(base_name, existing_names) ==
  IF base_name \in existing_names
    THEN base_name \o <<"_">> \o ToStr(1)
    ELSE base_name

generate_unique_name(base_name, existing_names) ==
  IF base_name \in existing_names
    THEN UniqueFrom(base_name, existing_names, 1)
    ELSE base_name

\* --------------------------------------------------------------- variables
VARIABLES
  objects,          \* names of bpy.data.objects
  parent,           \* obj.parent, NoObj when None
  obj_hide,         \* obj.hide_viewport
  world,            \* obj.matrix_world.translation (one coordinate, a fraction)
  collections,      \* names of bpy.data.collections
  children,         \* col.children, also of the scene's root collection
  col_objects,      \* col.objects, also of the scene's root collection
  ez_pivot,         \* col["ez_pivot"], NoTag when the key is absent
  hide_viewport,    \* col.hide_viewport
  hide_render,      \* col.hide_render
  solo_backup,      \* context.scene["ez_solo_backup"]: [has, map]
  selected,         \* context.selected_objects
  active_object,    \* context.view_layer.objects.active
  last_selected,    \* the module global _last_selected
  registered,       \* between register() and unregister()
  timer_on,         \* bpy.app.timers.is_registered(selection_timer)
  addon_keymaps,    \* number of entries of the module global addon_keymaps
  last,             \* the step just taken: [op, act, status, level, msg, ret]
  snap,             \* history: what the previous Solo ON / Merge started from
  cap,              \* the bounds of this specification:
                    \* [create, total, edits, ticks, prune]
  edits             \* runs counted against cap.edits

scene_vars == <<objects, parent, obj_hide, world, collections, children, col_objects,
                ez_pivot, hide_viewport, hide_render, solo_backup>>
ctx_vars == <<selected, active_object>>
addon_vars == <<last_selected, registered, timer_on, addon_keymaps>>
vars == <<scene_vars, ctx_vars, addon_vars, last, snap, cap, edits>>

Holders == collections \cup {Scene}

NoSnap == [kind |-> "none"]
EmptyMap == [c \in {} |-> FALSE]
NoBackup == [has |-> FALSE, map |-> EmptyMap]

\* act: context.view_layer.active_layer_collection of an operator's run, the
\* collection active in the outliner (NoAlc: none, Scene: the scene's root)
Step(op, act, status, level, msg) ==
  [op |-> op, act |-> act, status |-> status, level |-> level, msg |-> msg, ret |-> "",
   idle |-> FALSE]

\* The values of context.view_layer.active_layer_collection
Actives == Holders \cup {NoAlc}

\* ----------------------------------------------------------------- helpers
\* "ez_pivot" in collection
is_ez_collection(col) == col \in collections /\ ez_pivot[col] # NoTag

\* bpy.data.objects.get(col["ez_pivot"]) for a collection or None
get_collection_pivot(col) ==
  IF ~is_ez_collection(col) THEN NoObj
  ELSE IF ez_pivot[col] \in objects THEN ez_pivot[col] ELSE NoObj

\* obj.users_collection
users_collection(obj) == {c \in Holders : obj \in col_objects[c]}

\* the objects hide_all_pivots() hides
PivotsOf(tags, objs) == {tags[c] : c \in {d \in DOMAIN tags : tags[d] # NoTag}} \cap objs

\* a hide_all_pivots that hides nothing
hide_no_pivots(hide, tags, objs) == hide

hide_all_pivots(hide, tags, objs) ==
  [o \in DOMAIN hide |-> IF o \in PivotsOf(tags, objs) THEN TRUE ELSE hide[o]]

\* obj.parent chain: is anc an ancestor of o (or o itself) under par
RECURSIVE IsAncestor(_, _, _, _)
IsAncestor(anc, o, par, fuel) ==
  IF o = anc THEN TRUE
  ELSE IF fuel = 0 \/ o = NoObj \/ par[o] = NoObj THEN FALSE
  ELSE IsAncestor(anc, par[o], par, fuel - 1)

\* bpy.ops.object.parent_set(type='OBJECT'): would parenting o to act loop
ParentLoop(o, act, par) == IsAncestor(o, act, par, Cardinality(DOMAIN par))

\* a parent_set that parents nothing
parent_set_nothing(par, sel, act) == par

\* bpy.ops.object.parent_set: the selected objects but the active one get the
\* active one as parent
parent_set(par, sel, act) ==
  [o \in DOMAIN par |-> IF o \in sel /\ o # act THEN act ELSE par[o]]

\* bpy.ops.object.parent_clear on the selection
parent_clear(par, sel) ==
  [o \in DOMAIN par |-> IF o \in sel THEN NoObj ELSE par[o]]

\* preserve_parent_hierarchy: the roots of objs
root_objects(objs, par) == {o \in objs : par[o] = NoObj \/ par[o] \notin objs}

\* f with key k (new or not) mapped to v
Ext(f, k, v) == [x \in (DOMAIN f) \cup {k} |-> IF x = k THEN v ELSE f[x]]

\* create_smart_pivot builds a mesh object (an icosphere); the user's
\* objects are a mesh and an empty
ObjType(o) == IF StartsWith(o, PivotPrefix) \/ o = ObjA THEN "MESH" ELSE "EMPTY"

\* create_smart_pivot(collection_name, ...): the name of the object it makes
create_smart_pivot(collection_name) == PivotPrefix \o collection_name

\* a tag that names the pivot's mesh, "PivotMesh_<collection>"
MeshNameTag(pivot) ==
  <<"P", "i", "v", "o", "t", "M", "e", "s", "h", "_">>
    \o SubSeq(pivot, Len(PivotPrefix) + 1, Len(pivot))

\* col["ez_pivot"] = pivot.name (an object is modelled by its name)
PivotTag(pivot) == pivot

\* set_visibility(collection, visible): the two flags it writes
set_visibility(visible) == [hide_viewport |-> ~visible, hide_render |-> ~visible]

\* ---------------------------------------------------------------- vectors
\* One coordinate of a mathutils Vector, kept as a fraction <<n, d>> in
\* lowest terms with d > 0 (the other coordinates are computed alike; the
\* rounding of the host's floats is left out).
Abs(n) == IF n < 0 THEN -n ELSE n

RECURSIVE GCD(_, _)
GCD(m, n) == IF n = 0 THEN m ELSE GCD(n, m % n)

Frac(n, d) ==
  LET g == GCD(Abs(n), d)
  IN <<n \div g, d \div g>>

\* Vector()
Vector == <<0, 1>>

\* u + v
VecAdd(u, v) == Frac(u[1] * v[2] + v[1] * u[2], u[2] * v[2])

\* u / k for an integer k >= 1
VecDiv(u, k) == Frac(u[1], u[2] * k)

\* sum((f[x] for x in S), Vector())
RECURSIVE VecSum(_, _)
VecSum(S, f) ==
  IF S = {} THEN Vector
  ELSE LET x == CHOOSE y \in S : TRUE
       IN VecAdd(f[x], VecSum(S \ {x}, f))

\* a centre that is the location of one of them
first_location(S, f) == f[CHOOSE y \in S : TRUE]

\* sum(locations, Vector()) / len(locations)
center(S, f) == VecDiv(VecSum(S, f), Cardinality(S))

\* Where the user's objects are unless a specification says otherwise
HomeWorld == [o \in BaseObjects |-> Vector]

\* -------------------------------------------------------------------- Init
InitScene(create_bound, bound, edit_bound, count_ticks, prune) ==
  /\ cap = [create |-> create_bound, total |-> bound, edits |-> edit_bound,
            ticks |-> count_ticks, prune |-> prune]
  /\ edits = 0
  /\ objects = BaseObjects
  /\ parent = [o \in BaseObjects |-> IF o = ObjB THEN ObjA ELSE NoObj]
  /\ obj_hide = [o \in BaseObjects |-> FALSE]
  /\ collections = {}
  /\ children = [c \in {Scene} |-> {}]
  /\ col_objects = [c \in {Scene} |-> BaseObjects]
  /\ ez_pivot = [c \in {} |-> NoTag]
  /\ hide_viewport = EmptyMap
  /\ hide_render = EmptyMap
  /\ solo_backup = NoBackup
  /\ selected = {}
  /\ active_object = NoObj
  /\ last_selected = {}
  /\ registered = FALSE
  /\ timer_on = FALSE
  /\ addon_keymaps = 0
  /\ last = Step("init", NoAlc, "", "", "")

InitWith(create_bound, bound, edit_bound, count_ticks, prune) ==
  /\ InitScene(create_bound, bound, edit_bound, count_ticks, prune)
  /\ world = HomeWorld
  /\ snap = NoSnap

Init == InitWith(MaxCreated, MaxCols, MaxEdits, TRUE, TRUE)

\* ------------------------------------------------------------ the user
\* The user replaces the selection in the viewport and leaves no object
\* active (the add-on reads the active object only after it has set it).
UserSelect(S) ==
  /\ registered
  /\ S \subseteq objects
  /\ Cardinality(S) <= MaxSel
  /\ S # selected
  /\ selected' = S
  /\ active_object' = NoObj
  /\ last' = Step("select", NoAlc, "", "", "")
  /\ snap' = NoSnap
  /\ UNCHANGED <<scene_vars, addon_vars, edits>>

\* ------------------------------------------------------------ operators
\* One more run of an operator other than Create and Merge, within the bound.
Edit == edits < cap.edits /\ edits' = edits + 1

\* self.report(level, msg); return {'CANCELLED'} before anything was written
Cancel(op, act, level, msg) ==
  /\ last' = [Step(op, act, "CANCELLED", level, msg) EXCEPT !.idle = TRUE]
  /\ snap' = NoSnap
  /\ UNCHANGED <<scene_vars, ctx_vars, addon_vars, edits>>

MsgNotEz == "Active collection is not an EZCollection."
MsgNoPivot == "Pivot not found."
MsgNoValid == "No valid objects selected."

\* OBJECT_OT_ez_create_collection.execute
Create(collection_suffix) ==
  /\ registered
  /\ LET objs == selected
         suffix == Strip(collection_suffix)
     IN
     IF objs = {} THEN Cancel("create", NoAlc, "ERROR", "Select at least one object first.")
     ELSE IF suffix = <<>> THEN Cancel("create", NoAlc, "ERROR", "Collection name cannot be empty.")
     ELSE
       LET collection_name == generate_unique_name(ColPrefix \o suffix, collections)
           pivot == create_smart_pivot(collection_name)
           roots == root_objects(objs, parent)
           tags == Ext(ez_pivot, collection_name, PivotTag(pivot))
           objs2 == objects \cup {pivot}
       IN
       /\ Cardinality(collections) < cap.create
       /\ pivot \notin objects
       /\ collections' = collections \cup {collection_name}
       /\ children' = Ext([children EXCEPT ![Scene] = @ \cup {collection_name}],
                          collection_name, {})
       /\ col_objects' = Ext([c \in Holders |-> col_objects[c] \ objs],
                             collection_name, objs \cup {pivot})
       /\ objects' = objs2
       /\ parent' = parent_set(Ext(parent, pivot, NoObj), {pivot} \cup roots, pivot)
       /\ ez_pivot' = tags
       /\ obj_hide' = Ext(hide_all_pivots(Ext(obj_hide, pivot, FALSE), tags, objs2),
                          pivot, FALSE)
       /\ world' = Ext(world, pivot, center(objs, world))
       /\ hide_viewport' = Ext(hide_viewport, collection_name, FALSE)
       /\ hide_render' = Ext(hide_render, collection_name, FALSE)
       /\ selected' = {pivot}
       /\ active_object' = pivot
       /\ last' = Step("create", NoAlc, "FINISHED", "INFO", "created with smart pivot.")
       /\ snap' = NoSnap
       /\ UNCHANGED <<solo_backup, addon_vars, edits>>

\* preserve_parent_hierarchy(objs, pivot) as the last statement of Add and of
\* Lock Pivot. parent_set refuses an object of which the new parent is a
\* descendant ("Loop in parents"): the call then raises after it parented
\* some of the objects it visited before (the host's order).
ParentToPivot(op, pivot_col, objs, pivot, msg) ==
  LET roots == root_objects(objs, parent)
      loops == {o \in roots : ParentLoop(o, pivot, parent)}
  IN
  /\ selected' = {pivot} \cup roots
  /\ active_object' = IF roots # {} THEN pivot ELSE active_object
  /\ IF loops = {}
       THEN /\ parent' = parent_set(parent, {pivot} \cup roots, pivot)
            /\ last' = Step(op, pivot_col, "FINISHED", "INFO", msg)
       ELSE /\ \E done \in SUBSET (roots \ loops) :
                 parent' = parent_set(parent, {pivot} \cup done, pivot)
            /\ last' = Step(op, pivot_col, "RAISED", "ERROR", "Loop in parents")

\* OBJECT_OT_ez_add_to_collection.execute
Add(act) ==
  /\ registered
  /\ IF act = NoAlc \/ ~is_ez_collection(act) THEN Cancel("add", act, "ERROR", MsgNotEz)
     ELSE
       LET col == act
           pivot == get_collection_pivot(col)
           selected_objects == selected \ {pivot}
           moved == {o \in selected_objects : o \notin col_objects[col]}
       IN
       IF pivot = NoObj THEN Cancel("add", act, "ERROR", MsgNoPivot)
       ELSE IF selected_objects = {} THEN Cancel("add", act, "WARNING", MsgNoValid)
       ELSE
         /\ col_objects' = [c \in Holders |->
                              IF c = col THEN col_objects[c] \cup moved
                              ELSE col_objects[c] \ moved]
         /\ ParentToPivot("add", act, selected_objects, pivot, "object(s) added")
         /\ snap' = NoSnap
         /\ Edit
         /\ UNCHANGED <<objects, obj_hide, world, collections, children, ez_pivot,
                        hide_viewport, hide_render, solo_backup, addon_vars>>

\* OBJECT_OT_ez_remove_from_collection.execute
Remove(act) ==
  /\ registered
  /\ IF act = NoAlc \/ ~is_ez_collection(act) THEN Cancel("remove", act, "ERROR", MsgNotEz)
     ELSE
       LET col == act
           pivot == get_collection_pivot(col)
           selected_objects == selected \ {pivot}
       IN
       IF selected_objects = {} THEN Cancel("remove", act, "WARNING", MsgNoValid)
       ELSE
         \* the loop leaves the object it visited last selected and active
         /\ \E final \in selected_objects :
              /\ selected' = {final}
              /\ active_object' = final
         /\ parent' = parent_clear(parent, selected_objects)
         /\ col_objects' = [c \in Holders |->
                              IF c = col THEN col_objects[c] \ selected_objects
                              ELSE IF c = Scene THEN col_objects[c] \cup selected_objects
                              ELSE col_objects[c]]
         /\ last' = Step("remove", act, "FINISHED", "INFO", "object(s) removed")
         /\ snap' = NoSnap
         /\ Edit
         /\ UNCHANGED <<objects, obj_hide, world, collections, children, ez_pivot,
                        hide_viewport, hide_render, solo_backup, addon_vars>>

\* OBJECT_OT_ez_pivot_unlock.execute
Unlock(act) ==
  /\ registered
  /\ IF act = NoAlc \/ ~is_ez_collection(act) THEN Cancel("unlock", act, "ERROR", MsgNotEz)
     ELSE
       LET pivot == get_collection_pivot(act)
           kids == {o \in col_objects[act] : parent[o] = pivot}
       IN
       IF pivot = NoObj THEN Cancel("unlock", act, "ERROR", MsgNoPivot)
       ELSE
         /\ parent' = parent_clear(parent, kids)
         /\ selected' = {pivot}
         /\ active_object' = pivot
         /\ last' = Step("unlock", act, "FINISHED", "INFO", "unlocked.")
         /\ snap' = NoSnap
         /\ Edit
         /\ UNCHANGED <<objects, obj_hide, world, collections, children, col_objects, ez_pivot,
                        hide_viewport, hide_render, solo_backup, addon_vars>>

\* OBJECT_OT_ez_pivot_lock.execute
Lock(act) ==
  /\ registered
  /\ IF act = NoAlc \/ ~is_ez_collection(act) THEN Cancel("lock", act, "ERROR", MsgNotEz)
     ELSE
       LET pivot == get_collection_pivot(act)
           collection_objects == col_objects[act] \ {pivot}
       IN
       IF pivot = NoObj THEN Cancel("lock", act, "ERROR", MsgNoPivot)
       ELSE
         /\ ParentToPivot("lock", act, collection_objects, pivot, "locked.")
         /\ snap' = NoSnap
         /\ Edit
         /\ UNCHANGED <<objects, obj_hide, world, collections, children, col_objects, ez_pivot,
                        hide_viewport, hide_render, solo_backup, addon_vars>>

\* Toggle Solo, the branch without backup: every collection but col is hidden
SoloOn(col) ==
  /\ solo_backup' = [has |-> TRUE, map |-> [c \in collections |-> hide_viewport[c]]]
  /\ hide_viewport' = [c \in collections |-> set_visibility(c = col).hide_viewport]
  /\ hide_render' = [c \in collections |-> set_visibility(c = col).hide_render]

\* a branch with a backup that writes the backup back and keeps it
SoloOffKeepsBackup ==
  /\ hide_viewport' = [c \in collections |->
                         IF c \in DOMAIN solo_backup.map THEN solo_backup.map[c]
                         ELSE hide_viewport[c]]
  /\ hide_render' = hide_render
  /\ solo_backup' = solo_backup

\* Toggle Solo, the branch with a backup: what the backup holds is written back
SoloOff ==
  /\ hide_viewport' = [c \in collections |->
                         IF c \in DOMAIN solo_backup.map THEN solo_backup.map[c]
                         ELSE hide_viewport[c]]
  /\ hide_render' = hide_render
  /\ solo_backup' = NoBackup

\* Toggle Solo past its first test, lines 428-449
SoloToggle(act) ==
  /\ IF ~solo_backup.has
       THEN /\ SoloOn(act)
            /\ last' = Step("solo", act, "FINISHED", "INFO", "Solo view ON")
            /\ snap' = [kind |-> "solo_on", hv |-> hide_viewport, hr |-> hide_render,
                        col |-> act]
       ELSE /\ SoloOff
            /\ last' = Step("solo", act, "FINISHED", "INFO",
                            "Solo view OFF. Restored previous state.")
            /\ snap' = IF snap.kind = "solo_on"
                         THEN [snap EXCEPT !.kind = "solo_on_off"]
                         ELSE NoSnap
  /\ Edit
  /\ UNCHANGED <<objects, parent, obj_hide, world, collections, children, col_objects,
                 ez_pivot, ctx_vars, addon_vars>>

\* Toggle Solo without its first test
ToggleSoloUnchecked(act) ==
  /\ registered
  /\ SoloToggle(act)

\* OBJECT_OT_ez_toggle_solo_collection.execute
ToggleSolo(act) ==
  /\ registered
  /\ IF act = NoAlc \/ ~is_ez_collection(act) THEN Cancel("solo", act, "ERROR", MsgNotEz)
     ELSE SoloToggle(act)

\* a fallback that takes every EZCollection when an EZCollection is active
selected_collections_all(act) ==
  LET from_objects == {c \in collections :
                         is_ez_collection(c) /\ \E o \in selected : o \in col_objects[c]}
  IN IF from_objects # {} THEN from_objects
     ELSE IF act # NoAlc /\ is_ez_collection(act)
       THEN {c \in collections : is_ez_collection(c)}
     ELSE {}

\* Merge: the EZCollections the selected objects are linked to, else the
\* active one
selected_collections(act) ==
  LET from_objects == {c \in collections :
                         is_ez_collection(c) /\ \E o \in selected : o \in col_objects[c]}
  IN IF from_objects # {} THEN from_objects
     ELSE IF act # NoAlc /\ is_ez_collection(act) THEN {act}
     ELSE {}

\* a Merge that also links the new parent below each collection it merged
MergeLinksBack(kids, parent_col, merged) ==
  [c \in DOMAIN kids |->
     IF c = Scene THEN kids[c] \ merged
     ELSE IF c = parent_col THEN kids[c] \cup merged
     ELSE IF c \in merged THEN kids[c] \cup {parent_col}
     ELSE kids[c]]

\* Merge, lines 517-521: col.children after the merged collections were
\* unlinked from the scene's root (when linked there) and linked to parent_col
MergeLinks(kids, parent_col, merged) ==
  [c \in DOMAIN kids |->
     IF c = Scene THEN kids[c] \ merged
     ELSE IF c = parent_col THEN kids[c] \cup merged
     ELSE kids[c]]

\* OBJECT_OT_ez_merge_collections.execute
Merge(act, name_typed) ==
  /\ registered
  /\ LET cols == selected_collections(act)
         parent_name == Strip(name_typed)
     IN
     IF Cardinality(cols) < 2
       THEN Cancel("merge", act, "ERROR",
                   "Select objects from at least 2 EZCollections to merge them.")
     ELSE IF parent_name = <<>>
       THEN Cancel("merge", act, "ERROR", "Parent collection name cannot be empty.")
     ELSE
       LET parent_collection_name ==
             generate_unique_name(ColPrefix \o parent_name, collections)
           parent_pivot == create_smart_pivot(parent_collection_name)
           child_pivots == {get_collection_pivot(c) : c \in cols} \ {NoObj}
           with_pivot == {c \in cols : get_collection_pivot(c) # NoObj}
           pivot_locations == [c \in with_pivot |-> world[get_collection_pivot(c)]]
           linked == Ext([children EXCEPT ![Scene] = @ \cup {parent_collection_name}],
                         parent_collection_name, {})
       IN
       /\ Cardinality(collections) < cap.total
       /\ parent_pivot \notin objects
       /\ collections' = collections \cup {parent_collection_name}
       /\ hide_viewport' = Ext(hide_viewport, parent_collection_name, FALSE)
       /\ hide_render' = Ext(hide_render, parent_collection_name, FALSE)
       /\ IF child_pivots = {}
            THEN \* the new collection is already linked when the operator gives up
                 /\ children' = linked
                 /\ col_objects' = Ext(col_objects, parent_collection_name, {})
                 /\ ez_pivot' = Ext(ez_pivot, parent_collection_name, NoTag)
                 /\ last' = Step("merge", act, "CANCELLED", "ERROR",
                                 "No valid pivots found in selected EZCollections.")
                 /\ snap' = NoSnap
                 /\ UNCHANGED <<objects, parent, obj_hide, world, selected, active_object>>
            ELSE LET tags == Ext(ez_pivot, parent_collection_name, PivotTag(parent_pivot))
                     objs2 == objects \cup {parent_pivot}
                 IN
                 /\ children' = MergeLinks(linked, parent_collection_name, cols)
                 /\ col_objects' = Ext(col_objects, parent_collection_name, {parent_pivot})
                 /\ objects' = objs2
                 /\ parent' = parent_set(Ext(parent, parent_pivot, NoObj),
                                         {parent_pivot} \cup child_pivots, parent_pivot)
                 /\ ez_pivot' = tags
                 /\ obj_hide' = Ext(hide_all_pivots(Ext(obj_hide, parent_pivot, FALSE),
                                                    tags, objs2),
                                    parent_pivot, FALSE)
                 /\ world' = Ext(world, parent_pivot, center(with_pivot, pivot_locations))
                 /\ selected' = {parent_pivot}
                 /\ active_object' = parent_pivot
                 /\ last' = Step("merge", act, "FINISHED", "INFO", "Merged")
                 /\ snap' = [kind |-> "merge", cols |-> cols,
                             par |-> parent_collection_name,
                             at_root |-> cols \subseteq children[Scene]]
       /\ UNCHANGED <<solo_backup, addon_vars, edits>>

\* Unmerge, the loop over child_collections: `visited` were reached, `relinked`
\* of them got as far as the link to the scene's root
UnmergeLoop(parent_col, visited, relinked, status) ==
  LET act == parent_col
      cleared == {p \in {get_collection_pivot(c) : c \in visited} \ {NoObj} :
                    parent[p] # NoObj}
  IN
  /\ parent' = parent_clear(parent, cleared)
  /\ children' = [c \in DOMAIN children |->
                    IF c = parent_col THEN children[c] \ visited
                    ELSE IF c = Scene THEN children[c] \cup relinked
                    ELSE children[c]]
  /\ IF cleared = {}
       THEN UNCHANGED <<selected, active_object>>
       ELSE \E final \in cleared :
              /\ selected' = {final}
              /\ active_object' = final
  /\ last' = Step("unmerge", act, status, IF status = "FINISHED" THEN "INFO" ELSE "ERROR",
                  IF status = "FINISHED" THEN "Unmerged" ELSE "already in collection")

\* OBJECT_OT_ez_unmerge_collections.execute
Unmerge(act) ==
  /\ registered
  /\ IF act = NoAlc \/ ~is_ez_collection(act) THEN Cancel("unmerge", act, "ERROR", MsgNotEz)
     ELSE
       LET parent_col == act
           child_collections == {c \in children[parent_col] : is_ez_collection(c)}
           \* children.link raises for a collection the scene's root already holds
           dup == child_collections \cap children[Scene]
       IN
       IF child_collections = {}
         THEN Cancel("unmerge", act, "WARNING", "No child EZCollections found to unmerge.")
       ELSE
         /\ IF dup = {}
              THEN UnmergeLoop(parent_col, child_collections, child_collections, "FINISHED")
              ELSE \E bad \in dup : \E before \in SUBSET (child_collections \ dup) :
                     UnmergeLoop(parent_col, before \cup {bad}, before, "RAISED")
         /\ snap' = IF snap.kind = "merge" /\ snap.par = parent_col
                      THEN [snap EXCEPT !.kind = "merge_unmerge"]
                      ELSE NoSnap
         /\ Edit
         /\ UNCHANGED <<objects, obj_hide, world, collections, col_objects, ez_pivot,
                        hide_viewport, hide_render, solo_backup, addon_vars>>

\* OUTLINER_OT_ez_select_collection.execute
SelectContents(act) ==
  /\ registered
  /\ IF act = NoAlc THEN Cancel("select_contents", act, "WARNING", "No active collection in Outliner.")
     ELSE
       LET non_pivot_objects ==
             {o \in col_objects[act] :
                ObjType(o) # "EMPTY" \/ ~StartsWith(o, PivotPrefix)}
       IN
       /\ selected' = non_pivot_objects
       /\ IF non_pivot_objects = {}
            THEN active_object' = active_object
            ELSE active_object' \in non_pivot_objects
       /\ last' = Step("select_contents", act, "FINISHED", "", "")
       /\ snap' = NoSnap
       /\ Edit
       /\ UNCHANGED <<scene_vars, addon_vars>>

\* ------------------------------------------------------- selection timer
\* Stands in a hierarchy for a walk that went deeper than any chain of
\* distinct collections: the recursion of find_parent_collections never ends.
Overflow == <<"!">>

\* a find_parent_collections that stops at the direct parents
find_direct_parents(child_col, fuel) ==
  {parent_col \in collections :
     child_col \in children[parent_col] /\ is_ez_collection(parent_col)}

\* get_collection_hierarchy.find_parent_collections(child_col): the
\* collections it appends
RECURSIVE find_parent_collections(_, _)
find_parent_collections(child_col, fuel) ==
  LET parents == {parent_col \in collections :
                    child_col \in children[parent_col] /\ is_ez_collection(parent_col)}
  IN IF parents = {} THEN {}
     ELSE IF fuel = 0 THEN {Overflow}
     ELSE parents \cup UNION {find_parent_collections(p, fuel - 1) : p \in parents}

\* get_collection_hierarchy(obj), as the set of the collections of the list
get_collection_hierarchy(obj) ==
  UNION {{col} \cup find_parent_collections(col, Cardinality(collections)) :
           col \in {c \in users_collection(obj) : is_ez_collection(c)}}

\* selection_timer: the pivots the changed-selection path shows
PivotsToShow(current_selected) ==
  {get_collection_pivot(col) :
     col \in UNION {get_collection_hierarchy(o) : o \in current_selected \cap objects}
             \ {Overflow}} \ {NoObj}

\* a selection_timer that returns None when the selection did not change
selection_timer_once(path) == IF path = "unchanged" THEN "None" ELSE "0.1"

\* selection_timer: what each path returns to bpy.app.timers
selection_timer_return(path) == "0.1"

\* selection_timer(). ctx_ok = FALSE: the context of this tick has no
\* selected_objects and the first statement raises.
TimerTick(ctx_ok) ==
  /\ timer_on
  /\ LET current_selected == selected
         diverges == \E o \in current_selected \cap objects :
                        Overflow \in get_collection_hierarchy(o)
         path == IF ~ctx_ok THEN "except"
                 ELSE IF current_selected = last_selected THEN "unchanged"
                 ELSE IF current_selected = {} THEN "empty"
                 ELSE IF diverges THEN "except"
                 ELSE "changed"
         hidden == hide_all_pivots(obj_hide, ez_pivot, objects)
         ret == selection_timer_return(path)
     IN
     /\ last_selected' = IF ctx_ok THEN current_selected ELSE last_selected
     /\ obj_hide' =
          IF path = "empty" THEN hidden
          ELSE IF path = "changed"
            THEN [o \in objects |->
                    IF o \in PivotsToShow(current_selected) THEN FALSE ELSE hidden[o]]
          ELSE IF path = "except" /\ ctx_ok THEN hidden
          ELSE obj_hide
     /\ timer_on' = (ret # "None")
     /\ IF cap.ticks /\ path \in {"empty", "changed"} THEN Edit ELSE UNCHANGED edits
     /\ last' = [Step("tick", NoAlc, path, "", "") EXCEPT !.ret = ret]
     /\ snap' = NoSnap
     /\ UNCHANGED <<objects, parent, world, collections, children, col_objects, ez_pivot,
                    hide_viewport, hide_render, solo_backup, ctx_vars, registered,
                    addon_keymaps>>

\* ------------------------------------------------- register / unregister
\* the two keymap items register() appends
KeymapsAdded == 2

Register ==
  /\ ~registered
  /\ registered' = TRUE
  /\ addon_keymaps' = addon_keymaps + KeymapsAdded
  /\ timer_on' = TRUE
  /\ last' = Step("register", NoAlc, "", "", "")
  /\ snap' = NoSnap
  /\ UNCHANGED <<scene_vars, ctx_vars, last_selected, edits>>

\* an unregister() that does not clear addon_keymaps
UnregisterKeepsList ==
  /\ registered
  /\ registered' = FALSE
  /\ timer_on' = FALSE
  /\ addon_keymaps' = addon_keymaps
  /\ last' = Step("unregister", NoAlc, "", "", "")
  /\ snap' = NoSnap
  /\ UNCHANGED <<scene_vars, ctx_vars, last_selected, edits>>

Unregister ==
  /\ registered
  /\ registered' = FALSE
  /\ timer_on' = FALSE
  /\ addon_keymaps' = 0
  /\ last' = Step("unregister", NoAlc, "", "", "")
  /\ snap' = NoSnap
  /\ UNCHANGED <<scene_vars, ctx_vars, last_selected, edits>>

\* ------------------------------------------------------------- the host
\* The user deletes an object: the host unlinks it everywhere and clears the
\* parent of its children.
UserDelete(o) ==
  /\ registered
  /\ o \in objects
  /\ objects' = objects \ {o}
  /\ parent' = [x \in objects \ {o} |-> IF parent[x] = o THEN NoObj ELSE parent[x]]
  /\ obj_hide' = [x \in objects \ {o} |-> obj_hide[x]]
  /\ world' = [x \in objects \ {o} |-> world[x]]
  /\ col_objects' = [c \in Holders |-> col_objects[c] \ {o}]
  /\ selected' = selected \ {o}
  /\ active_object' = IF active_object = o THEN NoObj ELSE active_object
  /\ last' = Step("delete", NoAlc, "", "", "")
  /\ snap' = NoSnap
  /\ UNCHANGED <<collections, children, ez_pivot, hide_viewport, hide_render,
                 solo_backup, addon_vars, edits>>

\* ------------------------------------------------- generate_unique_name
\* One call of generate_unique_name on the arguments the initial state drew.
UniqueName ==
  /\ snap.kind = "names"
  /\ snap' = [kind |-> "named", base |-> snap.base, existing |-> snap.existing,
              name |-> generate_unique_name(snap.base, snap.existing)]
  /\ last' = Step("generate_unique_name", NoAlc, "", "", "")
  /\ UNCHANGED <<scene_vars, ctx_vars, addon_vars, edits>>

\* ---------------------------------------------------------- specifications
\* A run is not continued from an operator that returned before it wrote
\* anything: that state differs from the one before only in `last`, and what
\* can follow it is what can follow the state before. (Not so where a
\* property speaks of what eventually happens.)
Continue == cap.prune => ~last.idle

DoCreate == Continue /\ UNCHANGED cap /\ \E suffix \in Suffixes : Create(suffix)
DoAdd == Continue /\ UNCHANGED cap /\ \E act \in Actives : Add(act)
DoRemove == Continue /\ UNCHANGED cap /\ \E act \in Actives : Remove(act)
DoUnlock == Continue /\ UNCHANGED cap /\ \E act \in Actives : Unlock(act)
DoLock == Continue /\ UNCHANGED cap /\ \E act \in Actives : Lock(act)
DoToggleSolo == Continue /\ UNCHANGED cap /\ \E act \in Actives : ToggleSolo(act)
DoMerge ==
  Continue /\ UNCHANGED cap /\ \E act \in Actives : \E name \in Suffixes : Merge(act, name)
DoUnmerge == Continue /\ UNCHANGED cap /\ \E act \in Actives : Unmerge(act)
DoSelectContents == Continue /\ UNCHANGED cap /\ \E act \in Actives : SelectContents(act)
DoUserSelect == Continue /\ UNCHANGED cap /\ \E S \in SUBSET objects : UserSelect(S)
DoUserDelete == Continue /\ UNCHANGED cap /\ \E o \in objects : UserDelete(o)
DoTimerTick == Continue /\ UNCHANGED cap /\ \E ctx_ok \in BOOLEAN : TimerTick(ctx_ok)
DoRegister == Continue /\ UNCHANGED cap /\ Register
DoUnregister == Continue /\ UNCHANGED cap /\ Unregister

\* The add-on once registered: its operators, its user and the timer. Within
\* the bound MaxEdits a tick that changes something counts as an edit.
Next ==
  \/ DoSelectContents
  \/ DoCreate
  \/ DoAdd
  \/ DoRemove
  \/ DoUnlock
  \/ DoLock
  \/ DoToggleSolo
  \/ DoMerge
  \/ DoUnmerge
  \/ DoUserSelect
  \/ DoTimerTick
  \/ DoRegister

Spec == Init /\ [][Next]_vars

\* Create, Merge and Toggle Solo.
NextSolo ==
  \/ DoCreate
  \/ DoMerge
  \/ DoToggleSolo
  \/ DoUserSelect
  \/ DoRegister

SpecSolo == InitWith(MaxCreated, MaxCols, MaxToggles, FALSE, TRUE) /\ [][NextSolo]_vars

\* Create, Merge and the timer, every tick.
NextTimer ==
  \/ DoCreate
  \/ DoMerge
  \/ DoUserSelect
  \/ DoTimerTick
  \/ DoRegister

SpecTimer == InitWith(MaxCreated, MaxCols, MaxEdits, FALSE, TRUE) /\ [][NextTimer]_vars

\* generate_unique_name on a base name and each set of the names base,
\* base_1, ..., base_<MaxNames>, beside Create and Merge, which call it on
\* the names of bpy.data.collections.
NamePool ==
  LET base == ColPrefix \o <<"A">>
  IN {base} \cup {base \o <<"_">> \o ToStr(k) : k \in 1..MaxNames}

InitNames ==
  /\ InitScene(MaxCreated, MaxCols, MaxEdits, FALSE, TRUE)
  /\ world = HomeWorld
  /\ \E existing_names \in SUBSET NamePool :
       snap = [kind |-> "names", base |-> ColPrefix \o <<"A">>,
               existing |-> existing_names]

DoUniqueName == Continue /\ UNCHANGED cap /\ UniqueName

NextNames ==
  \/ DoUniqueName
  \/ DoCreate
  \/ DoMerge
  \/ DoUserSelect
  \/ DoRegister

SpecNames == InitNames /\ [][NextNames]_vars

\* Create, Add and Remove: the operators that link objects to collections
\* and unlink them.
NextLinks ==
  \/ DoCreate
  \/ DoAdd
  \/ DoRemove
  \/ DoUserSelect
  \/ DoRegister

SpecLinks == InitWith(MaxCreated, MaxCreated, MaxLinkEdits, FALSE, TRUE) /\ [][NextLinks]_vars

\* Create and Merge on objects the user placed anywhere on a small grid:
\* where the new pivots are put.
Coords == {<<k, 1>> : k \in (-MaxCoord)..MaxCoord}

InitPlaced ==
  /\ InitScene(MaxCreated, MaxCols, MaxEdits, FALSE, TRUE)
  /\ world \in [BaseObjects -> Coords]
  /\ snap = NoSnap

NextPlaced ==
  \/ DoCreate
  \/ DoMerge
  \/ DoUserSelect
  \/ DoRegister

SpecPlaced == InitPlaced /\ [][NextPlaced]_vars

\* Create, Add and Remove with the timer, every tick: what the pivots show
\* after an operator changed the links under an unchanged selection.
NextStale ==
  \/ DoCreate
  \/ DoAdd
  \/ DoRemove
  \/ DoUserSelect
  \/ DoTimerTick
  \/ DoRegister

SpecStale == InitWith(MaxCreated, MaxCreated, MaxEdits, FALSE, TRUE) /\ [][NextStale]_vars

\* The scene Create leaves when run on {a} and then on {b}, as a file saved
\* with it holds it, and the add-on registered.
TwoScene ==
  LET col1 == ColPrefix \o <<"A">>
      col2 == ColPrefix \o <<"A", "_", "1">>
      pivot1 == PivotPrefix \o col1
      pivot2 == PivotPrefix \o col2
      cols == {col1, col2}
  IN
  /\ objects = BaseObjects \cup {pivot1, pivot2}
  /\ parent = [o \in BaseObjects \cup {pivot1, pivot2} |->
                 IF o = ObjA THEN pivot1 ELSE IF o = ObjB THEN pivot2 ELSE NoObj]
  /\ obj_hide = [o \in BaseObjects \cup {pivot1, pivot2} |-> o = pivot1]
  /\ world = [o \in BaseObjects \cup {pivot1, pivot2} |-> Vector]
  /\ collections = cols
  /\ children = [c \in cols \cup {Scene} |-> IF c = Scene THEN cols ELSE {}]
  /\ col_objects = [c \in cols \cup {Scene} |->
                      IF c = col1 THEN {ObjA, pivot1}
                      ELSE IF c = col2 THEN {ObjB, pivot2} ELSE {}]
  /\ ez_pivot = [c \in cols |-> IF c = col1 THEN pivot1 ELSE pivot2]
  /\ hide_viewport = [c \in cols |-> FALSE]
  /\ hide_render = [c \in cols |-> FALSE]
  /\ solo_backup = NoBackup
  /\ selected = {pivot2}
  /\ active_object = pivot2
  /\ last_selected = {}
  /\ registered = TRUE
  /\ timer_on = TRUE
  /\ addon_keymaps = KeymapsAdded

InitTwo ==
  /\ TwoScene
  /\ cap = [create |-> 0, total |-> MaxColsTree, edits |-> MaxUnmerges, ticks |-> FALSE,
            prune |-> TRUE]
  /\ edits = 0
  /\ last = Step("init", NoAlc, "", "", "")
  /\ snap = NoSnap

\* Merge and Unmerge on a scene of two EZCollections: the collection tree.
NextTree ==
  \/ DoMerge
  \/ DoUnmerge
  \/ DoUserSelect

SpecTree == InitTwo /\ [][NextTree]_vars

\* The add-on and a user who also deletes objects.
NextHost ==
  \/ DoSelectContents
  \/ DoCreate
  \/ DoAdd
  \/ DoRemove
  \/ DoUnlock
  \/ DoLock
  \/ DoToggleSolo
  \/ DoMerge
  \/ DoUnmerge
  \/ DoUserSelect
  \/ DoUserDelete
  \/ DoRegister

SpecHost == InitWith(MaxCreated, MaxCols, MaxEdits, FALSE, TRUE) /\ [][NextHost]_vars

\* register() and unregister() in turn, Create, the user and the timer,
\* which the host runs whenever it is due.
NextLife ==
  \/ DoCreate
  \/ DoUserSelect
  \/ DoTimerTick
  \/ DoRegister
  \/ DoUnregister

SpecLife ==
  /\ InitWith(MaxCreated, MaxCols, MaxEdits, FALSE, FALSE)
  /\ [][NextLife]_vars
  /\ WF_vars(DoTimerTick)

\* ------------------------------------------------------------------ claims
\* The collections above S, S included: n steps up the children of
\* bpy.data.collections.
RECURSIVE Above(_, _)
Above(S, n) ==
  IF n = 0 THEN S
  ELSE Above(S \cup {p \in collections : children[p] \cap S # {}}, n - 1)

Ancestors(c) == Above({c}, Cardinality(collections))

Tagged(c) == c \in collections /\ ez_pivot[c] # NoTag

Blank(s) == \A i \in 1..Len(s) : s[i] = " "

SoloIsOn == last.op = "solo" /\ last.msg = "Solo view ON"

\* C1: a run of an operator that returns CANCELLED leaves the collections,
\* the collection tree, the objects' links and parents, the tags, the
\* visibility flags and the selection as they were.
C1_CancelledHasNoEffect ==
  [][last'.status = "CANCELLED" => UNCHANGED <<scene_vars, ctx_vars>>]_vars

\* C2: Toggle Solo run twice in succession (ON, then OFF) leaves
\* hide_viewport and hide_render of every collection as they were before
\* the first run.
C2_SoloRestoresBothFlags ==
  snap.kind = "solo_on_off" => hide_viewport = snap.hv /\ hide_render = snap.hr

\* C3: right after Solo ON for the active EZCollection C, neither C nor any
\* collection above it has hide_viewport set.
C3_SoloedCollectionVisible ==
  SoloIsOn => \A c \in Ancestors(last.act) : ~hide_viewport[c]

\* C4: every ez_pivot tag is the name of an object that exists.
C4_TagsNameLiveObjects ==
  \A c \in collections : ez_pivot[c] # NoTag => ez_pivot[c] \in objects

C4_Witness ==
  /\ last.op = "tick"
  /\ last.status = "changed"
  /\ Cardinality({c \in collections : Tagged(c)}) = MaxCols

\* C5: right after a tick that saw the selection changed, a pivot is visible
\* exactly when it is the pivot of a collection in the hierarchy of a selected
\* object; none is when the selection is empty.
C5_PivotsFollowSelection ==
  (last.op = "tick" /\ last.status \in {"changed", "empty"}) =>
    \A c \in collections : Tagged(c) /\ ez_pivot[c] \in objects =>
      (~obj_hide[ez_pivot[c]] <=>
         \E o \in selected : \E h \in get_collection_hierarchy(o) :
           Tagged(h) /\ ez_pivot[h] = ez_pivot[c])

C5_Witness ==
  /\ last.op = "tick"
  /\ last.status = "changed"
  /\ \E c, d \in collections :
       /\ Tagged(c) /\ obj_hide[ez_pivot[c]]
       /\ Tagged(d) /\ ~obj_hide[ez_pivot[d]]
       /\ children[d] # {}

C7_TimerKeepsRepeating ==
  /\ [](last.op = "tick" => last.ret = "0.1" /\ timer_on)
  /\ (last.op = "select") ~> (last.op = "tick" \/ ~registered)

C7_Witness ==
  /\ last.op = "tick"
  /\ last.status = "changed"
  /\ last.ret = "0.1"
  /\ last_selected = selected
  /\ collections # {}

\* C8: the walk of find_parent_collections ends from every collection: no
\* EZCollection lies above itself.
C8_WalkTerminates ==
  \A c \in collections :
    /\ Overflow \notin find_parent_collections(c, Cardinality(collections))
    /\ c \notin Above({p \in collections : c \in children[p] /\ Tagged(p)},
                      Cardinality(collections))

C8_Witness ==
  /\ last.op = "unmerge"
  /\ edits = MaxUnmerges
  /\ \E c, d, e \in collections : c \in children[d] /\ d \in children[e]

Cancelled == last'.status = "CANCELLED"

\* C9: Add, Remove, Lock Pivot, Unlock Pivot, Toggle Solo and Unmerge report
\* an error and return CANCELLED when no layer collection is active or the
\* active one has no tag; Create returns CANCELLED on an empty selection,
\* Add and Remove on a selection empty but for the collection's pivot,
\* Create and Merge on a name blank once stripped.
C9_CancelConditions ==
  [][LET act == last'.act  \* the layer collection active in this run
     IN
     /\ ~Tagged(act) =>
          ((Add(act) \/ Remove(act) \/ Lock(act) \/ Unlock(act)
              \/ ToggleSolo(act) \/ Unmerge(act))
             => Cancelled /\ last'.level = "ERROR")
     /\ (Tagged(act) /\ selected \ {ez_pivot[act]} = {}) =>
          (Add(act) \/ Remove(act) => Cancelled)
     /\ \A name \in Suffixes :
          /\ Blank(name) /\ Merge(act, name) => Cancelled
          /\ (selected = {} \/ Blank(name)) /\ Create(name) => Cancelled
    ]_vars

C9_Witness ==
  /\ last.op = "solo"
  /\ last.status = "CANCELLED"
  /\ last.level = "ERROR"
  /\ last.act = Scene
  /\ collections # {}

\* C10: EZCollections that are children of the scene's root, merged and then
\* unmerged with the new parent active, are each a child of the scene's root
\* and of no other collection, and their pivots have no parent.
C10_MergeUnmergeRoundTrip ==
  (snap.kind = "merge_unmerge" /\ snap.at_root) =>
    \A c \in snap.cols :
      /\ c \in children[Scene]
      /\ \A p \in collections : c \notin children[p]
      /\ get_collection_pivot(c) # NoObj => parent[get_collection_pivot(c)] = NoObj

C12_MergedHaveOneParent ==
  snap.kind = "merge" =>
    \A c \in snap.cols : {p \in Holders : c \in children[p]} = {snap.par}

\* the pivots that exist and are shown, after the step
ShownPivots == {ez_pivot'[d] : d \in {e \in collections' : ez_pivot'[e] # NoTag}}
                 \cap {o \in objects' : ~obj_hide'[o]}

\* C13: a Merge that returns FINISHED leaves a new collection under the
\* scene's root, tagged with a new pivot linked to it; the pivots of the
\* merged collections are parented to that pivot, which is the one selected
\* object, the active object and the one pivot shown.
C13_MergeResult ==
  [][(last'.op = "merge" /\ last'.status = "FINISHED") =>
       \E P \in collections' \ collections :
         LET pivot == ez_pivot'[P] IN
         /\ P \in children'[Scene]
         /\ pivot \in objects' \ objects
         /\ pivot \in col_objects'[P]
         /\ children'[P] # {}
         /\ \A c \in children'[P] :
              (Tagged(c) /\ ez_pivot[c] \in objects) => parent'[ez_pivot[c]] = pivot
         /\ selected' = {pivot}
         /\ active_object' = pivot
         /\ ShownPivots = {pivot}
    ]_vars

C13_Witness ==
  /\ snap.kind = "merge"
  /\ ~snap.at_root
  /\ \A c \in snap.cols : parent[ez_pivot[c]] = ez_pivot[snap.par]
  /\ selected = {ez_pivot[snap.par]}

\* the EZCollections the selected objects are linked to
CollectionsOfSelection ==
  {c \in collections : Tagged(c) /\ col_objects[c] \cap selected # {}}

\* C14: Merge returns FINISHED only when the selected objects are linked to
\* two EZCollections or more; otherwise, the case of an active EZCollection
\* and no selected object of an EZCollection included, it reports "Select
\* objects from at least 2 EZCollections to merge them." and returns CANCELLED.
C14_MergeNeedsTwo ==
  [][last'.op = "merge" =>
       /\ last'.status = "FINISHED" => Cardinality(CollectionsOfSelection) >= 2
       /\ Cardinality(CollectionsOfSelection) < 2 =>
            /\ last'.status = "CANCELLED"
            /\ last'.msg = "Select objects from at least 2 EZCollections to merge them."
    ]_vars

\* the fallback: an EZCollection active, two EZCollections, nothing of them
\* selected
C14_Witness ==
  /\ last.op = "merge"
  /\ last.status = "CANCELLED"
  /\ Tagged(last.act)
  /\ CollectionsOfSelection = {}
  /\ Cardinality({c \in collections : Tagged(c)}) >= 2

\* C15: a Create that returns FINISHED leaves a new collection under the
\* scene's root that holds every object that was selected, linked nowhere
\* else, tagged with a new pivot linked to it, which is the one selected
\* object, the active object and the one pivot shown.
C15_CreateResult ==
  [][(last'.op = "create" /\ last'.status = "FINISHED") =>
       \E C \in collections' \ collections :
         LET pivot == ez_pivot'[C] IN
         /\ C \in children'[Scene]
         /\ \A o \in selected :
              {h \in collections' \cup {Scene} : o \in col_objects'[h]} = {C}
         /\ pivot \in objects' \ objects
         /\ pivot \in col_objects'[C]
         /\ selected' = {pivot}
         /\ active_object' = pivot
         /\ ShownPivots = {pivot}
    ]_vars

\* a second Create, of a selection that held the first collection's pivot
C15_Witness ==
  /\ last.op = "create"
  /\ last.status = "FINISHED"
  /\ \E c, d \in collections : c # d /\ ez_pivot[c] \in col_objects[d]

\* base_k of generate_unique_name
Numbered(base, k) == base \o <<"_">> \o ToStr(k)

\* C16: generate_unique_name(base, existing) is not in existing; it is base
\* when base is not in existing and else base_k for the least k >= 1 with
\* base_k not in existing. So the name Create or Merge would give next is
\* none of the collections' names, and every collection's name starts with
\* "COL_".
C16_UniqueName ==
  /\ snap.kind = "named" =>
       /\ snap.name \notin snap.existing
       /\ snap.base \notin snap.existing => snap.name = snap.base
       /\ snap.base \in snap.existing =>
            \E k \in 1..(Cardinality(snap.existing) + 1) :
              /\ snap.name = Numbered(snap.base, k)
              /\ \A j \in 1..(k - 1) : Numbered(snap.base, j) \in snap.existing
  /\ \A c \in collections : StartsWith(c, ColPrefix)
  /\ \A suffix \in Suffixes : ~Blank(suffix) =>
       LET name == generate_unique_name(ColPrefix \o Strip(suffix), collections)
       IN name \notin collections /\ StartsWith(name, ColPrefix)

\* the name numbered MaxNames, past ten names taken
C16_Witness ==
  /\ snap.kind = "named"
  /\ snap.name = Numbered(snap.base, MaxNames)

\* The arguments of the call of preserve_parent_hierarchy in the step taken:
\* Create passes the selection and the pivot it made, Add the selection but
\* the pivot, Lock Pivot the collection's objects but the pivot.
PphCalled ==
  /\ last'.op \in {"create", "add", "lock"}
  /\ last'.status # "CANCELLED"

PphParent ==
  IF last'.op = "create"
    THEN CHOOSE pivot \in objects' \ objects : TRUE
    ELSE ez_pivot[last'.act]

PphObjects ==
  IF last'.op = "lock"
    THEN col_objects[last'.act] \ {PphParent}
    ELSE selected \ {PphParent}

\* C17: preserve_parent_hierarchy(objects, new_parent) gives new_parent as
\* parent to exactly the roots of objects (parent None or not in objects)
\* and leaves every other object's parent as it was.
C17_RootsReparented ==
  [][PphCalled =>
       LET roots == root_objects(PphObjects, parent)
       IN /\ \A o \in roots : parent'[o] = PphParent
          /\ \A o \in objects \ roots : parent'[o] = parent[o]]_vars

\* The objects create_smart_pivot made: every object but the user's.
SmartPivots == objects \ BaseObjects

\* C18: after Select Collection Contents returned FINISHED the selection is
\* the objects of the active collection that create_smart_pivot did not
\* make, and the active object is one of them when there is one.
C18_SelectsNoPivot ==
  (last.op = "select_contents" /\ last.status = "FINISHED") =>
    LET contents == col_objects[last.act] \ SmartPivots
    IN /\ selected = contents
       /\ contents # {} => active_object \in contents

\* C19: after Unlock Pivot returned FINISHED no object has the active
\* collection's pivot as parent, and the pivot is the one selected object
\* and the active one.
C19_UnlockFreesPivot ==
  (last.op = "unlock" /\ last.status = "FINISHED") =>
    LET pivot == ez_pivot[last.act]
    IN /\ \A o \in objects : parent[o] # pivot
       /\ selected = {pivot}
       /\ active_object = pivot

\* C20: after Add returned FINISHED every object that was selected, but the
\* active collection's pivot, is linked to the active collection and to no
\* other.
C20_AddedLinkedOnce ==
  [][(last'.op = "add" /\ last'.status = "FINISHED") =>
       \A o \in selected \ {ez_pivot[last'.act]} :
         {h \in Holders : o \in col_objects'[h]} = {last'.act}]_vars

\* C21: the ez_solo_backup entry is written only by a Toggle Solo run while
\* there is none, which reports solo ON; a Toggle Solo run while there is
\* one, whatever EZCollection is active, reports solo OFF, writes back to
\* every collection the hide_viewport the backup holds for it and removes
\* the backup.
C21_BackupOnlyOffToOn ==
  [][/\ (solo_backup'.has /\ solo_backup' # solo_backup) =>
          /\ ~solo_backup.has
          /\ last'.op = "solo"
          /\ solo_backup'.map = [c \in collections |-> hide_viewport[c]]
     /\ (last'.op = "solo" /\ last'.status = "FINISHED") =>
          /\ solo_backup'.has <=> last'.msg = "Solo view ON"
          /\ solo_backup'.has <=> ~solo_backup.has
          /\ solo_backup.has =>
               /\ solo_backup' = NoBackup
               /\ last'.msg = "Solo view OFF. Restored previous state."
               /\ \A c \in collections :
                    hide_viewport'[c] = IF c \in DOMAIN solo_backup.map
                                          THEN solo_backup.map[c]
                                          ELSE hide_viewport[c]]_vars

\* solo switched off with another EZCollection active than the soloed one
C21_Witness ==
  /\ last.op = "solo"
  /\ snap.kind = "solo_on_off"
  /\ snap.col # last.act
  /\ ~solo_backup.has

\* The product of the denominators of f over S, and the sum of f over S in
\* units of 1/L, for L a multiple of every denominator
RECURSIVE DenProduct(_, _)
DenProduct(S, f) ==
  IF S = {} THEN 1
  ELSE LET x == CHOOSE y \in S : TRUE
       IN f[x][2] * DenProduct(S \ {x}, f)

RECURSIVE SumInUnits(_, _, _)
SumInUnits(S, f, L) ==
  IF S = {} THEN 0
  ELSE LET x == CHOOSE y \in S : TRUE
       IN f[x][1] * (L \div f[x][2]) + SumInUnits(S \ {x}, f, L)

\* v is the arithmetic mean of f over the non-empty set S
IsMean(v, S, f) ==
  LET L == DenProduct(S, f)
  IN /\ S # {}
     /\ v[2] > 0
     /\ v[1] * Cardinality(S) * L = v[2] * SumInUnits(S, f, L)

\* C22: the pivot Create makes is placed at the arithmetic mean of the world
\* translations of the objects that were selected, and the pivot Merge
\* makes at the mean of those of the merged collections' pivots.
C22_PivotAtCentroid ==
  [][/\ (last'.op = "create" /\ last'.status = "FINISHED") =>
          \A pivot \in objects' \ objects : IsMean(world'[pivot], selected, world)
     /\ (last'.op = "merge" /\ last'.status = "FINISHED") =>
          \A P \in collections' \ collections :
            IsMean(world'[ez_pivot'[P]], {ez_pivot[c] : c \in children'[P]}, world)]_vars

\* a merged parent's pivot half-way between two pivots that are themselves
\* half-way between objects
C22_Witness ==
  /\ snap.kind = "merge"
  /\ world[ez_pivot[snap.par]][2] = 4

\* C23: the pivot an EZCollection's tag names is linked to that collection.
C23_PivotInItsCollection ==
  \A c \in collections : Tagged(c) => ez_pivot[c] \in col_objects[c]

\* C24: right after a tick of selection_timer that ran to its end, whether
\* or not it saw the selection changed, every pivot that is not hidden is the
\* pivot of an EZCollection in the hierarchy of a selected object.
C24_NoStalePivot ==
  (last.op = "tick" /\ last.status \in {"changed", "empty", "unchanged"}) =>
    \A c \in collections : (Tagged(c) /\ ez_pivot[c] \in objects) =>
      (~obj_hide[ez_pivot[c]] =>
         \E o \in selected : \E h \in get_collection_hierarchy(o) :
           Tagged(h) /\ ez_pivot[h] = ez_pivot[c])

====
